---- MODULE Spec2Model ----
(***************************************************************************)
(* Model of canvas/src/terminal.ts: environment detection, the dispatch of *)
(* a canvas command to Ghostty (osascript) or tmux, and the lifecycle of   *)
(* the pane registry file /tmp/claude-canvas-pane-id.                      *)
(*                                                                         *)
(* Every await, every spawned process and every process event (close,      *)
(* error, timer) of the source is one step of a spawnCanvas call.  The     *)
(* host (tmux server, osascript) and the file system are the environment:  *)
(* their answers are chosen nondeterministically among the answers they    *)
(* can give.  The write of the temporary config file (terminal.ts:54-59)   *)
(* is part of command building and is not a registry access; it is taken   *)
(* to succeed.                                                             *)
(***************************************************************************)
EXTENDS Integers, Sequences, FiniteSets, TLC

\* Number of panes the tmux server hands out before the model stops
\* starting calls (tmux numbers panes %1, %2, ... and never reuses a number).
MaxPanes == 2

\* Longest command text whose escaping is followed
MaxCommandLen == 4

\* The spawnCanvas calls the model follows.
Procs == {1, 2}

NL == "\n"
Whitespace == {" ", NL}
Digit == <<"1", "2", "3", "4", "5", "6", "7", "8", "9">>

\* The pane Claude itself runs in: tmux resolves an empty target to it.
CurrentPane == <<"%", "0">>

\* The text tmux prints for pane number n with the format #{pane_id}.
PaneStr(n) == <<"%", Digit[n]>>

\* The pane numbers that have a text
Panes == DOMAIN Digit

VARIABLES
    fileExists,   \* whether CANVAS_PANE_FILE exists
    fileText,     \* its content, a string (sequence of characters)
    live,         \* pane numbers created by split-window and still open
    nextPane,     \* the number tmux gives to the next pane
    call,         \* per call: position and locals of spawnCanvas
    keystroke     \* the command text on its way into the osascript literal

vars == <<fileExists, fileText, live, nextPane, call, keystroke>>

----------------------------------------------------------------------------
\* String.prototype.trim
RECURSIVE TrimStart(_)
TrimStart(s) ==
    IF s # <<>> /\ Head(s) \in Whitespace THEN TrimStart(Tail(s)) ELSE s

RECURSIVE TrimEnd(_)
TrimEnd(s) ==
    IF s # <<>> /\ s[Len(s)] \in Whitespace
    THEN TrimEnd(SubSeq(s, 1, Len(s) - 1))
    ELSE s

Trim(s) == TrimEnd(TrimStart(s))

\* JavaScript truthiness of a string
Truthy(s) == s # <<>>

Has(tr, x) == \E i \in DOMAIN tr : tr[i] = x

----------------------------------------------------------------------------
\* detectTerminal: the three signals and the summary
Envs == [inTmux : BOOLEAN, inGhostty : BOOLEAN, isMacOS : BOOLEAN]

\* Faulty variant of detectTerminal: the tmux marker is looked at first
detectTerminalTmuxFirst(e) ==
    [inTmux |-> e.inTmux, inGhostty |-> e.inGhostty, isMacOS |-> e.isMacOS,
     summary |-> IF e.inTmux THEN "tmux"
                 ELSE IF e.inGhostty /\ e.isMacOS THEN "ghostty (macOS)"
                 ELSE "unsupported"]

detectTerminal(e) ==
    [inTmux |-> e.inTmux, inGhostty |-> e.inGhostty, isMacOS |-> e.isMacOS,
     summary |-> IF e.inGhostty /\ e.isMacOS THEN "ghostty (macOS)"
                 ELSE IF e.inTmux THEN "tmux"
                 ELSE "unsupported"]

\* The condition under which spawnCanvas tries Ghostty first
TryGhostty(env) == env.inGhostty /\ env.isMacOS

\* The condition under which spawnCanvas tries tmux
TryTmux(env) == env.inTmux

NoLookup == [status |-> -1, defined |-> FALSE, out |-> <<>>]

IdleCall ==
    [pc |-> "idle",
     env |-> detectTerminal([inTmux |-> FALSE, inGhostty |-> FALSE, isMacOS |-> FALSE]),
     paneId |-> <<>>,       \* paneId read by getCanvasPaneId
     look |-> NoLookup,     \* result of the spawnSync lookup
     existing |-> <<>>,     \* existingPaneId in spawnTmux
     hasExisting |-> FALSE, \* getCanvasPaneId returned a string (not null)
     newId |-> <<>>,        \* stdout collected by createNewPane
     code |-> -1,           \* exit code seen by the last close handler
     late |-> "none",       \* killProc events still to come after its error
     outcome |-> "none",    \* "ghostty", "tmux" (returned) or "thrown"
     err |-> "none",        \* which error was thrown
     trace |-> <<>>,        \* commands issued and registry accesses, in order
     overlapped |-> FALSE,  \* history: another call was in flight during this one
     heldAtLookup |-> TRUE, \* history: the file still held paneId at the lookup
     heldAtReuse |-> TRUE,  \* history: the file still held the id when reuse began
     over |-> <<>>]         \* history: the content the save wrote over

Finished == {"idle", "done", "unhandled"}

\* No command text under way
NoKeystroke == [command |-> <<>>, text |-> <<>>, replaced |-> 0]

Init ==
    /\ fileExists = FALSE
    /\ fileText = <<>>
    /\ live = {}
    /\ nextPane = 1
    /\ call = [p \in Procs |-> IdleCall]
    /\ keystroke = NoKeystroke

Set(p, c) == [call EXCEPT ![p] = c]

Log(c, ev) == [c EXCEPT !.trace = Append(c.trace, ev)]

\* Trace entries are pairs: the process or registry operation, and what
\* happened to it.  kill is the send-keys of C-c, send the send-keys of the
\* command.  This one is a close event with its exit code.
Closed(proc, code) == <<proc, IF code = 0 THEN "close.0" ELSE "close.1">>

\* return { method } from spawnCanvas (terminal.ts:68, 73)
Return(c, method) == [c EXCEPT !.pc = "done", !.outcome = method]

\* a rejection of the spawnCanvas promise
Throw(c, e) == [c EXCEPT !.pc = "done", !.outcome = "thrown", !.err = e]

\* Faulty variant of EnterTmux: the tmux marker is not consulted
EnterTmuxAlways(c) == [c EXCEPT !.pc = "tmux"]

\* terminal.ts:71-78: spawnTmux if in tmux, else the error
EnterTmux(c) ==
    IF TryTmux(c.env) THEN [c EXCEPT !.pc = "tmux"]
    ELSE Throw(c, "RequiresGhosttyOrTmux")

\* Faulty variant of LeaveTmux: the result of spawnTmux is not tested
LeaveTmuxAlways(c, result) == Return(c, "tmux")

\* terminal.ts:73-78: the value spawnTmux resolved with
LeaveTmux(c, result) ==
    IF result THEN Return(c, "tmux") ELSE Throw(c, "RequiresGhosttyOrTmux")

\* Faulty variant of LeaveGhostty: tmux is tried after a successful automation too
LeaveGhosttyAlsoTmux(c, result) == EnterTmux(c)

\* Faulty variant of LeaveGhostty: no fall back to tmux after a failed automation
LeaveGhosttyNoFallback(c, result) ==
    IF result THEN Return(c, "ghostty") ELSE Throw(c, "RequiresGhosttyOrTmux")

\* terminal.ts:68-78: the value spawnGhostty resolved with
LeaveGhostty(c, result) ==
    IF result THEN Return(c, "ghostty") ELSE EnterTmux(c)

----------------------------------------------------------------------------
\* The locals of a call that has returned or thrown no longer exist; what a
\* pending close of its killProc still needs is kept
Forget(c) ==
    IF c.pc \in Finished
    THEN IF c.late = "none" THEN IdleCall
         ELSE [IdleCall EXCEPT !.late = c.late, !.existing = c.existing]
    ELSE c

\* spawnCanvas up to its first await on a host: detection, command building
\* and the choice of the first strategy.
SpawnCanvas(p, e) ==
    /\ call[p].pc \in Finished
    /\ call[p].late = "none"
    /\ nextPane <= MaxPanes
    /\ LET inFlight == {q \in Procs \ {p} : call[q].pc \notin Finished}
           c == [IdleCall EXCEPT !.env = detectTerminal(e),
                                 !.overlapped = inFlight # {}]
           first == IF TryGhostty(c.env) THEN [c EXCEPT !.pc = "ghostty"]
                    ELSE EnterTmux(c)
       IN  call' = [q \in Procs |->
                       IF q = p THEN first
                       ELSE IF q \in inFlight THEN [call[q] EXCEPT !.overlapped = TRUE]
                       ELSE Forget(call[q])]
    /\ UNCHANGED <<fileExists, fileText, live, nextPane, keystroke>>

\* spawnGhostty: spawn("osascript", ...)
SpawnGhostty(p) ==
    /\ call[p].pc = "ghostty"
    /\ call' = Set(p, Log([call[p] EXCEPT !.pc = "osascript"], <<"osascript", "spawn">>))
    /\ UNCHANGED <<fileExists, fileText, live, nextPane, keystroke>>

\* Faulty variant of GhosttyClose: resolve(true) whatever the exit code
GhosttyCloseAnyCode(p, code) ==
    /\ call[p].pc = "osascript"
    /\ call' = Set(p, LeaveGhostty(Log([call[p] EXCEPT !.code = code], Closed("osascript", code)),
                                   TRUE))
    /\ UNCHANGED <<fileExists, fileText, live, nextPane, keystroke>>

\* proc.on("close", (code) => resolve(code === 0))
GhosttyClose(p, code) ==
    /\ call[p].pc = "osascript"
    /\ call' = Set(p, LeaveGhostty(Log([call[p] EXCEPT !.code = code], Closed("osascript", code)),
                                   code = 0))
    /\ UNCHANGED <<fileExists, fileText, live, nextPane, keystroke>>

\* proc.on("error", () => resolve(false))
GhosttyError(p) ==
    /\ call[p].pc = "osascript"
    /\ call' = Set(p, LeaveGhostty(Log(call[p], <<"osascript", "error">>), FALSE))
    /\ UNCHANGED <<fileExists, fileText, live, nextPane, keystroke>>

----------------------------------------------------------------------------
\* getCanvasPaneId returns null: spawnTmux goes on to createNewPane
ReturnNull(c) == [c EXCEPT !.pc = "create", !.hasExisting = FALSE, !.existing = <<>>]

\* spawnTmux after getCanvasPaneId returned paneId: if (existingPaneId)
ReturnPane(c, paneId) ==
    [c EXCEPT !.pc = IF Truthy(paneId) THEN "reuse" ELSE "create",
              !.hasExisting = TRUE, !.existing = paneId]

\* await file.exists(), inside the try
GetPaneExists(p, ioError) ==
    /\ call[p].pc = "tmux"
    /\ call' = Set(p,
          IF ioError THEN ReturnNull(Log(call[p], <<"reg.exists", "err">>))
          ELSE IF fileExists THEN Log([call[p] EXCEPT !.pc = "text"], <<"reg.exists", "ok">>)
          ELSE ReturnNull(Log(call[p], <<"reg.exists", "ok">>)))
    /\ UNCHANGED <<fileExists, fileText, live, nextPane, keystroke>>

\* Faulty variant of GetPaneText: the read is outside the try
GetPaneTextThrows(p, ioError) ==
    /\ call[p].pc = "text"
    /\ call' = Set(p,
          IF ioError \/ ~fileExists THEN Throw(Log(call[p], <<"reg.text", "err">>), "io")
          ELSE Log([call[p] EXCEPT !.pc = "lookup", !.paneId = Trim(fileText)],
                   <<"reg.text", "ok">>))
    /\ UNCHANGED <<fileExists, fileText, live, nextPane, keystroke>>

\* (await file.text()).trim(), inside the try
GetPaneText(p, ioError) ==
    /\ call[p].pc = "text"
    /\ call' = Set(p,
          IF ioError \/ ~fileExists THEN ReturnNull(Log(call[p], <<"reg.text", "err">>))
          ELSE Log([call[p] EXCEPT !.pc = "lookup", !.paneId = Trim(fileText)],
                   <<"reg.text", "ok">>))
    /\ UNCHANGED <<fileExists, fileText, live, nextPane, keystroke>>

\* The shapes a spawnSync result can take: status null and no stdout, a
\* non-zero status, or status 0 and a pane id with its newline
LookupResults ==
    {[status |-> -1, defined |-> FALSE, out |-> <<>>],
     [status |-> 1, defined |-> TRUE, out |-> <<>>],
     [status |-> 0, defined |-> TRUE, out |-> CurrentPane \o <<NL>>]}
    \cup {[status |-> 0, defined |-> TRUE, out |-> PaneStr(n) \o <<NL>>] : n \in Panes}

\* What tmux display-message -t target -p "#{pane_id}" can answer:
\* the spawn fails (status and stdout null), the command exits non-zero, the
\* target is a live pane and its id is printed, or the target is not a live
\* pane and tmux resolves it to another pane (the empty target is the
\* current pane).
HostLookup(target) ==
    {[status |-> -1, defined |-> FALSE, out |-> <<>>],
     [status |-> 1, defined |-> TRUE, out |-> <<>>]}
    \cup (IF \E n \in live : PaneStr(n) = target
          THEN {[status |-> 0, defined |-> TRUE, out |-> target \o <<NL>>]}
          ELSE {[status |-> 0, defined |-> TRUE, out |-> PaneStr(n) \o <<NL>>] : n \in live}
               \cup {[status |-> 0, defined |-> TRUE, out |-> CurrentPane \o <<NL>>]})

\* Faulty variant of PaneConfirmed: the echoed id is not compared
PaneConfirmedStatusOnly(r, paneId) == r.status = 0

\* result.status === 0 && output === paneId, output the trimmed stdout
PaneConfirmed(r, paneId) ==
    r.status = 0 /\ r.defined /\ Trim(r.out) = paneId

\* The registry file holds this id
Holds(id) == fileExists /\ fileText = id

\* Faulty variant of GetPaneLookup: the file is emptied before the test
\* instead of after it
GetPaneLookupClearsFirst(p, r) ==
    /\ call[p].pc = "lookup"
    /\ r \in HostLookup(call[p].paneId)
    /\ LET c == Log([call[p] EXCEPT !.look = r, !.heldAtLookup = Holds(call[p].paneId)],
                    <<"display-message", "spawnSync">>)
       IN  call' = Set(p, IF PaneConfirmed(r, c.paneId)
                          THEN ReturnPane(c, c.paneId)
                          ELSE ReturnNull(c))
    /\ fileExists' = TRUE
    /\ fileText' = <<>>
    /\ UNCHANGED <<live, nextPane, keystroke>>

\* spawnSync("tmux", ["display-message", "-t", paneId, ...]) and the test on it
GetPaneLookup(p, r) ==
    /\ call[p].pc = "lookup"
    /\ r \in HostLookup(call[p].paneId)
    /\ LET c == Log([call[p] EXCEPT !.look = r, !.heldAtLookup = Holds(call[p].paneId)],
                    <<"display-message", "spawnSync">>)
       IN  call' = Set(p, IF PaneConfirmed(r, c.paneId)
                          THEN ReturnPane(c, c.paneId)
                          ELSE [c EXCEPT !.pc = "stale"])
    /\ UNCHANGED <<fileExists, fileText, live, nextPane, keystroke>>

\* Faulty variant of GetPaneClear: the stale reference is left in the file
GetPaneClearSkip(p, ioError) ==
    /\ call[p].pc = "stale"
    /\ call' = Set(p, ReturnNull(call[p]))
    /\ UNCHANGED <<fileExists, fileText, live, nextPane, keystroke>>

\* await Bun.write(CANVAS_PANE_FILE, "") for a stale reference, inside the try
GetPaneClear(p, ioError) ==
    /\ call[p].pc = "stale"
    /\ IF ioError
       THEN /\ call' = Set(p, ReturnNull(Log(call[p], <<"reg.clear", "err">>)))
            /\ UNCHANGED <<fileExists, fileText>>
       ELSE /\ call' = Set(p, ReturnNull(Log(call[p], <<"reg.clear", "ok">>)))
            /\ fileExists' = TRUE
            /\ fileText' = <<>>
    /\ UNCHANGED <<live, nextPane, keystroke>>

----------------------------------------------------------------------------
\* Whether the tmux server can deliver keys to the target pane
PaneLive(target) == \E n \in live : PaneStr(n) = target

\* Exit codes tmux send-keys can end with: 0 only for a live target
SendKeysCodes(target) == IF PaneLive(target) THEN {0, 1} ELSE {1}

\* reuseExistingPane: spawn("tmux", ["send-keys", "-t", paneId, "C-c"])
ReuseKill(p) ==
    /\ call[p].pc = "reuse"
    /\ call' = Set(p, Log([call[p] EXCEPT !.pc = "kill",
                                          !.heldAtReuse = Holds(call[p].existing)],
                          <<"kill", "spawn">>))
    /\ UNCHANGED <<fileExists, fileText, live, nextPane, keystroke>>

\* killProc.on("close", () => setTimeout(..., 150)): the exit code is not read
KillClose(p, code) ==
    /\ call[p].pc = "kill"
    /\ code \in SendKeysCodes(call[p].existing)
    /\ call' = Set(p, Log([call[p] EXCEPT !.pc = "grace", !.code = code],
                          Closed("kill", code)))
    /\ UNCHANGED <<fileExists, fileText, live, nextPane, keystroke>>

\* Faulty variant of Reused: the result of reuseExistingPane is not tested
ReusedIgnored(c, reused) == [c EXCEPT !.pc = "unreuse"]

\* spawnTmux after reuseExistingPane resolved
Reused(c, reused) ==
    IF reused THEN LeaveTmux(c, TRUE) ELSE [c EXCEPT !.pc = "unreuse"]

\* killProc.on("error", () => resolve(false)); the runtime may still emit
\* close for a process that failed to spawn, and the close handler is bound.
KillError(p, closeFollows) ==
    /\ call[p].pc = "kill"
    /\ call' = Set(p, Reused(Log([call[p] EXCEPT
                                     !.late = IF closeFollows THEN "close" ELSE "none"],
                                 <<"kill", "error">>), FALSE))
    /\ UNCHANGED <<fileExists, fileText, live, nextPane, keystroke>>

\* The setTimeout callback: spawn("tmux", ["send-keys", "-t", paneId,
\* `clear && ${command}`, "Enter"])
GraceTimer(p) ==
    /\ call[p].pc = "grace"
    /\ call' = Set(p, Log([call[p] EXCEPT !.pc = "send"], <<"send", "spawn">>))
    /\ UNCHANGED <<fileExists, fileText, live, nextPane, keystroke>>

\* proc.on("close", (code) => resolve(code === 0))
SendClose(p, code) ==
    /\ call[p].pc = "send"
    /\ code \in SendKeysCodes(call[p].existing)
    /\ call' = Set(p, Reused(Log([call[p] EXCEPT !.code = code], Closed("send", code)),
                             code = 0))
    /\ UNCHANGED <<fileExists, fileText, live, nextPane, keystroke>>

\* proc.on("error", () => resolve(false))
SendError(p) ==
    /\ call[p].pc = "send"
    /\ call' = Set(p, Reused(Log(call[p], <<"send", "error">>), FALSE))
    /\ UNCHANGED <<fileExists, fileText, live, nextPane, keystroke>>

\* close of a killProc whose error already resolved the promise: the timer
\* is armed all the same
LateKillClose(p) ==
    /\ call[p].late = "close"
    /\ call' = [call EXCEPT ![p].late = "timer"]
    /\ UNCHANGED <<fileExists, fileText, live, nextPane, keystroke>>

\* and its callback spawns the second send-keys; the resolve calls of that
\* process change nothing, the promise being settled
LateTimer(p) ==
    /\ call[p].late = "timer"
    /\ call' = Set(p, Log([call[p] EXCEPT !.late = "none"], <<"send", "late">>))
    /\ UNCHANGED <<fileExists, fileText, live, nextPane, keystroke>>

\* Faulty variant of ReuseClear: the id is left in the file after a failed reuse
ReuseClearSkip(p, ioError) ==
    /\ call[p].pc = "unreuse"
    /\ call' = Set(p, [call[p] EXCEPT !.pc = "create"])
    /\ UNCHANGED <<fileExists, fileText, live, nextPane, keystroke>>

\* spawnTmux: await Bun.write(CANVAS_PANE_FILE, "") after a failed reuse;
\* no try surrounds it
ReuseClear(p, ioError) ==
    /\ call[p].pc = "unreuse"
    /\ IF ioError
       THEN /\ call' = Set(p, Throw(Log(call[p], <<"reg.unreuse", "err">>), "io"))
            /\ UNCHANGED <<fileExists, fileText>>
       ELSE /\ call' = Set(p, Log([call[p] EXCEPT !.pc = "create"], <<"reg.unreuse", "ok">>))
            /\ fileExists' = TRUE
            /\ fileText' = <<>>
    /\ UNCHANGED <<live, nextPane, keystroke>>

----------------------------------------------------------------------------
\* createNewPane: spawn("tmux", ["split-window", ..., "-P", "-F", "#{pane_id}", command])
CreateSplit(p) ==
    /\ call[p].pc = "create"
    /\ call' = Set(p, Log([call[p] EXCEPT !.pc = "split"], <<"split", "spawn">>))
    /\ UNCHANGED <<fileExists, fileText, live, nextPane, keystroke>>

\* The close handler of createNewPane up to its await
SplitClosed(c, code, stdout) ==
    IF code = 0 /\ Truthy(Trim(stdout))
    THEN [c EXCEPT !.pc = "save", !.code = code, !.newId = stdout]
    ELSE LeaveTmux([c EXCEPT !.code = code, !.newId = stdout], code = 0)

\* proc.on("close", ...) of split-window.  Exit code 0: the server opened
\* pane nextPane and printed its id; otherwise no pane and no output.
SplitClose(p, code) ==
    /\ call[p].pc = "split"
    /\ IF code = 0
       THEN /\ live' = live \cup {nextPane}
            /\ nextPane' = nextPane + 1
            /\ call' = Set(p, SplitClosed(Log(call[p], Closed("split", 0)), 0,
                                          PaneStr(nextPane) \o <<NL>>))
       ELSE /\ call' = Set(p, SplitClosed(Log(call[p], Closed("split", code)), code, <<>>))
            /\ UNCHANGED <<live, nextPane>>
    /\ UNCHANGED <<fileExists, fileText, keystroke>>

\* proc.on("error", () => resolve(false))
SplitError(p) ==
    /\ call[p].pc = "split"
    /\ call' = Set(p, LeaveTmux(Log(call[p], <<"split", "error">>), FALSE))
    /\ UNCHANGED <<fileExists, fileText, live, nextPane, keystroke>>

\* What a read of the registry file would give: nothing when it is absent
Content == IF fileExists THEN fileText ELSE <<>>

\* Faulty variant of SavePane: the collected stdout is saved without trim()
SavePaneUntrimmed(p, ioError) ==
    /\ call[p].pc = "save"
    /\ IF ioError
       THEN /\ call' = Set(p, Log([call[p] EXCEPT !.pc = "unhandled"], <<"reg.save", "err">>))
            /\ UNCHANGED <<fileExists, fileText>>
       ELSE /\ call' = Set(p, LeaveTmux(Log([call[p] EXCEPT !.over = Content],
                                            <<"reg.save", "ok">>), call[p].code = 0))
            /\ fileExists' = TRUE
            /\ fileText' = call[p].newId
    /\ UNCHANGED <<live, nextPane, keystroke>>

\* await saveCanvasPaneId(paneId.trim()); resolve(code === 0).  The handler
\* is an async function nobody awaits: when the write throws, resolve is
\* never called and the rejection is unhandled.
SavePane(p, ioError) ==
    /\ call[p].pc = "save"
    /\ IF ioError
       THEN /\ call' = Set(p, Log([call[p] EXCEPT !.pc = "unhandled"], <<"reg.save", "err">>))
            /\ UNCHANGED <<fileExists, fileText>>
       ELSE /\ call' = Set(p, LeaveTmux(Log([call[p] EXCEPT !.over = Content],
                                            <<"reg.save", "ok">>), call[p].code = 0))
            /\ fileExists' = TRUE
            /\ fileText' = Trim(call[p].newId)
    /\ UNCHANGED <<live, nextPane, keystroke>>

----------------------------------------------------------------------------
\* The user or the canvas program closes a pane, out of band
ClosePane(n) ==
    /\ n \in live
    /\ live' = live \ {n}
    /\ UNCHANGED <<fileExists, fileText, nextPane, call, keystroke>>

\* The caller starts a call only when no other call is in flight
Serialized(p) == \A q \in Procs \ {p} : call[q].pc \in Finished

SerialSpawnCanvas(p, e) == Serialized(p) /\ SpawnCanvas(p, e)

Step(p) ==
    \/ SpawnGhostty(p)
    \/ \E code \in {0, 1} : GhosttyClose(p, code)
    \/ GhosttyError(p)
    \/ \E ioError \in BOOLEAN : GetPaneExists(p, ioError)
    \/ \E ioError \in BOOLEAN : GetPaneText(p, ioError)
    \/ \E r \in LookupResults : GetPaneLookup(p, r)
    \/ \E ioError \in BOOLEAN : GetPaneClear(p, ioError)
    \/ ReuseKill(p)
    \/ \E code \in {0, 1} : KillClose(p, code)
    \/ \E closeFollows \in BOOLEAN : KillError(p, closeFollows)
    \/ GraceTimer(p)
    \/ \E code \in {0, 1} : SendClose(p, code)
    \/ SendError(p)
    \/ LateKillClose(p)
    \/ LateTimer(p)
    \/ \E ioError \in BOOLEAN : ReuseClear(p, ioError)
    \/ CreateSplit(p)
    \/ \E code \in {0, 1} : SplitClose(p, code)
    \/ SplitError(p)
    \/ \E ioError \in BOOLEAN : SavePane(p, ioError)

Next ==
    \/ \E p \in Procs, e \in Envs : SerialSpawnCanvas(p, e)
    \/ \E p \in Procs : Step(p)
    \/ \E n \in Panes : ClosePane(n)

Spec == Init /\ [][Next]_vars

\* Every spawned process ends by a close or an error event, every timer
\* fires and every file operation settles: a call that can take a step
\* takes one
SpecFair == Spec /\ \A p \in Procs : WF_vars(Step(p))

\* The environment of a multiplexer dispatch: tmux and no Ghostty
TmuxOnly == [inTmux |-> TRUE, inGhostty |-> FALSE, isMacOS |-> FALSE]

\* The steps of spawnTmux and its helpers
StepTmux(p) ==
    \/ \E ioError \in BOOLEAN : GetPaneExists(p, ioError)
    \/ \E ioError \in BOOLEAN : GetPaneText(p, ioError)
    \/ \E r \in LookupResults : GetPaneLookup(p, r)
    \/ \E ioError \in BOOLEAN : GetPaneClear(p, ioError)
    \/ ReuseKill(p)
    \/ \E code \in {0, 1} : KillClose(p, code)
    \/ \E closeFollows \in BOOLEAN : KillError(p, closeFollows)
    \/ GraceTimer(p)
    \/ \E code \in {0, 1} : SendClose(p, code)
    \/ SendError(p)
    \/ LateKillClose(p)
    \/ LateTimer(p)
    \/ \E ioError \in BOOLEAN : ReuseClear(p, ioError)
    \/ CreateSplit(p)
    \/ \E code \in {0, 1} : SplitClose(p, code)
    \/ SplitError(p)
    \/ \E ioError \in BOOLEAN : SavePane(p, ioError)

\* Multiplexer dispatches that overlap: nothing in terminal.ts makes a call
\* wait for another.  Panes are not closed here: to a call a closed pane
\* looks like the failed lookup or send-keys the host can answer anyway.
NextOverlapping ==
    \/ \E p \in Procs : SpawnCanvas(p, TmuxOnly)
    \/ \E p \in Procs : StepTmux(p)

SpecOverlapping == Init /\ [][NextOverlapping]_vars

----------------------------------------------------------------------------
\* The escaping of the command inside the AppleScript literal of spawnGhostty:
\* command.replace(/"/g, '\\"').replace(/\\/g, "\\\\")

Quote == "\""
Backslash == "\\"

\* The characters that matter to the escaping, and one that does not
Alphabet == {Quote, Backslash, "c"}

Commands == UNION {[1..n -> Alphabet] : n \in 0..MaxCommandLen}

\* String.prototype.replace with a one-character global pattern
RECURSIVE ReplaceAll(_, _, _)
ReplaceAll(s, ch, by) ==
    IF s = <<>> THEN <<>>
    ELSE (IF Head(s) = ch THEN by ELSE <<Head(s)>>) \o ReplaceAll(Tail(s), ch, by)

\* .replace(/"/g, '\\"'): a backslash before every double quote
ReplaceQuotes ==
    /\ keystroke.replaced = 0
    /\ keystroke' = [keystroke EXCEPT
                        !.text = ReplaceAll(keystroke.text, Quote, <<Backslash, Quote>>),
                        !.replaced = 1]
    /\ UNCHANGED <<fileExists, fileText, live, nextPane, call>>

\* .replace(/\\/g, "\\\\"): every backslash doubled, those just added too
ReplaceBackslashes ==
    /\ keystroke.replaced = 1
    /\ keystroke' = [keystroke EXCEPT
                        !.text = ReplaceAll(keystroke.text, Backslash, <<Backslash, Backslash>>),
                        !.replaced = 2]
    /\ UNCHANGED <<fileExists, fileText, live, nextPane, call>>

\* spawnGhostty called with any command text
InitEscape ==
    /\ fileExists = FALSE
    /\ fileText = <<>>
    /\ live = {}
    /\ nextPane = 1
    /\ call = [p \in Procs |-> IdleCall]
    /\ keystroke \in {[command |-> s, text |-> s, replaced |-> 0] : s \in Commands}

NextEscape == ReplaceQuotes \/ ReplaceBackslashes

SpecEscape == InitEscape /\ [][NextEscape]_vars

\* A host that answers every command as the state of its panes dictates:
\* no process fails to spawn, no command to a live pane fails
TrueAnswers(target) ==
    {r \in HostLookup(target) : r.defined /\ (PaneLive(target) => r.status = 0)}

TrueCode(target) == IF PaneLive(target) THEN 0 ELSE 1

LookupAnswered(p, r) == r \in TrueAnswers(call[p].paneId) /\ GetPaneLookup(p, r)

KillAnswered(p) == KillClose(p, TrueCode(call[p].existing))

SendAnswered(p) == SendClose(p, TrueCode(call[p].existing))

SplitAnswered(p) == SplitClose(p, 0)

\* Serialized multiplexer dispatches on such a host; the registry file can
\* still fail
NextHostOk ==
    \/ \E p \in Procs : SerialSpawnCanvas(p, TmuxOnly)
    \/ \E p \in Procs, ioError \in BOOLEAN : GetPaneExists(p, ioError)
    \/ \E p \in Procs, ioError \in BOOLEAN : GetPaneText(p, ioError)
    \/ \E p \in Procs, r \in LookupResults : LookupAnswered(p, r)
    \/ \E p \in Procs, ioError \in BOOLEAN : GetPaneClear(p, ioError)
    \/ \E p \in Procs : ReuseKill(p)
    \/ \E p \in Procs : KillAnswered(p)
    \/ \E p \in Procs : GraceTimer(p)
    \/ \E p \in Procs : SendAnswered(p)
    \/ \E p \in Procs, ioError \in BOOLEAN : ReuseClear(p, ioError)
    \/ \E p \in Procs : CreateSplit(p)
    \/ \E p \in Procs : SplitAnswered(p)
    \/ \E p \in Procs, ioError \in BOOLEAN : SavePane(p, ioError)
    \/ \E n \in Panes : ClosePane(n)

SpecHostOk == Init /\ [][NextHostOk]_vars

----------------------------------------------------------------------------
\* Vocabulary of the properties, read off a call's locals and trace

Spawned(c, proc) == Has(c.trace, <<proc, "spawn">>)

Before(tr, a, b) == \E i, j \in DOMAIN tr : i < j /\ tr[i] = a /\ tr[j] = b

\* a send-keys was issued by this call (the late one included)
SentKeys(c) ==
    Spawned(c, "kill") \/ Spawned(c, "send") \/ Has(c.trace, <<"send", "late">>)

LookedUp(c) == Has(c.trace, <<"display-message", "spawnSync">>)

\* the lookup did not echo the id read from the file
FoundStale(c) ==
    LookedUp(c) /\ (c.look.status # 0 \/ Trim(c.look.out) # c.paneId)

\* getCanvasPaneId handed a non-empty, host-confirmed id to spawnTmux
Validated(c) ==
    LookedUp(c) /\ c.look.status = 0 /\ Trim(c.look.out) = c.paneId /\ Truthy(c.paneId)

ReuseFailed(c) ==
    \/ Has(c.trace, <<"kill", "error">>)
    \/ Has(c.trace, <<"send", "close.1">>)
    \/ Has(c.trace, <<"send", "error">>)

GuiMarkers(c) == c.pc # "idle" /\ c.env.inGhostty /\ c.env.isMacOS

GuiFailed(c) ==
    Has(c.trace, <<"osascript", "close.1">>) \/ Has(c.trace, <<"osascript", "error">>)

\* spawnTmux has been entered
TmuxStarted(c) ==
    \/ c.pc \in {"tmux", "text", "lookup", "stale", "reuse", "kill", "grace", "send",
                 "unreuse", "create", "split", "save", "unhandled"}
    \/ \E i \in DOMAIN c.trace : c.trace[i][1] # "osascript"

\* an I/O or host-communication error inside getCanvasPaneId
ValidationError(c) ==
    \/ Has(c.trace, <<"reg.exists", "err">>)
    \/ Has(c.trace, <<"reg.text", "err">>)
    \/ (LookedUp(c) /\ c.look.status # 0)
    \/ Has(c.trace, <<"reg.clear", "err">>)

SplitFailed(c) ==
    Has(c.trace, <<"split", "close.1">>) \/ Has(c.trace, <<"split", "error">>)

\* a failure at a step with no fallback left
FinalFailure(c) == SplitFailed(c) \/ (GuiFailed(c) /\ ~c.env.inTmux)

\* a failure at a step that has a fallback
FallbackFailure(c) ==
    \/ ValidationError(c)
    \/ FoundStale(c)
    \/ ReuseFailed(c)
    \/ (GuiFailed(c) /\ c.env.inTmux)

Ended(c) == c.pc = "done"

----------------------------------------------------------------------------
\* C1 (as stated): every dispatch that starts with a persisted pane id the
\* host does not resolve, or resolves to another id, sends no keys and ends
\* with a freshly created pane whose id is the content of the registry file.
C1_StaleEndsWithNewPane ==
    \A p \in Procs :
        LET c == call[p]
        IN  (FoundStale(c) /\ Truthy(c.paneId) /\ Ended(c)) =>
                /\ ~SentKeys(c)
                /\ Has(c.trace, <<"split", "close.0">>)
                /\ fileExists /\ fileText = Trim(c.newId)

\* C1 (amended): such a dispatch sends no keys and issues split-window; and
\* when it returns successfully it ends with the freshly created pane, whose
\* id is the content of the registry file.
C1_StaleNeverReused ==
    \A p \in Procs :
        LET c == call[p]
        IN  (FoundStale(c) /\ Truthy(c.paneId)) =>
                /\ ~SentKeys(c)
                /\ c.pc \in {"done", "unhandled"} => Spawned(c, "split")
                /\ (Ended(c) /\ c.outcome = "tmux") =>
                       /\ Has(c.trace, <<"split", "close.0">>)
                       /\ c.newId = PaneStr(nextPane - 1) \o <<NL>>
                       /\ fileExists /\ fileText = PaneStr(nextPane - 1)

\* C1 witness: a persisted id the host resolved to a different id, and the
\* dispatch returned with a new pane.
C1_Witness ==
    \E p \in Procs :
        /\ FoundStale(call[p]) /\ Truthy(call[p].paneId)
        /\ call[p].look.status = 0
        /\ Ended(call[p]) /\ call[p].outcome = "tmux"
        /\ fileText = PaneStr(nextPane - 1)

\* C2: when a dispatch returns method tmux after creating a pane, the
\* registry file holds exactly the id of the pane just created.
C2_NewPaneIdPersisted ==
    \A p \in Procs :
        LET c == call[p]
        IN  (Ended(c) /\ c.outcome = "tmux" /\ Spawned(c, "split")) =>
                /\ fileExists
                /\ fileText = PaneStr(nextPane - 1)
                /\ fileText = Trim(c.newId)

\* C2 witness: no registry file at the start, a pane created and returned.
C2_Witness ==
    \E p \in Procs :
        /\ Ended(call[p]) /\ call[p].outcome = "tmux"
        /\ Spawned(call[p], "split") /\ ~LookedUp(call[p])
        /\ fileText = PaneStr(nextPane - 1)

\* C3: with the Ghostty and macOS markers both present, osascript is the
\* first command of the call, and spawnTmux is entered exactly when the
\* automation failed and the tmux marker is present.
C3_GuiBeforeTmux ==
    \A p \in Procs :
        LET c == call[p]
        IN  GuiMarkers(c) =>
                /\ c.trace # <<>> => c.trace[1] = <<"osascript", "spawn">>
                /\ TmuxStarted(c) <=> (GuiFailed(c) /\ c.env.inTmux)

\* C3 witness: the automation failed, the tmux marker was present and the
\* call went on through tmux.
C3_Witness ==
    \E p \in Procs :
        /\ GuiMarkers(call[p]) /\ GuiFailed(call[p]) /\ call[p].env.inTmux
        /\ Ended(call[p]) /\ call[p].outcome = "tmux"

\* C4 (as stated): a dispatch whose registry id the host confirms sends the
\* interrupt, waits, sends clear plus the command and returns method tmux
\* without any split-window, the registry still holding the same id.  The
\* calls that ended on a throwing registry write belong to C8 and are left
\* out here.
C4_ConfirmedPaneReused ==
    \A p \in Procs :
        LET c == call[p]
        IN  (Validated(c) /\ Ended(c) /\ c.err # "io") =>
                /\ Before(c.trace, <<"kill", "spawn">>, <<"send", "spawn">>)
                /\ c.outcome = "tmux"
                /\ ~Spawned(c, "split")
                /\ fileExists /\ fileText = c.existing

\* C4 (amended): such a dispatch sends the interrupt first and sends clear
\* plus the command only after the interrupt process closed and the timer
\* fired; when that second send-keys exits with status zero the call returns
\* method tmux without any split-window and with the registry still holding
\* the same id, and otherwise it goes on to clear the registry.
C4_ConfirmedPaneReusedOnSuccess ==
    \A p \in Procs :
        LET c == call[p]
        IN  Validated(c) =>
                /\ c.existing = c.paneId
                /\ c.pc # "reuse" => Spawned(c, "kill")
                /\ Spawned(c, "send") =>
                       \E code \in {0, 1} :
                           /\ Before(c.trace, <<"kill", "spawn">>, Closed("kill", code))
                           /\ Before(c.trace, Closed("kill", code), <<"send", "spawn">>)
                /\ (Ended(c) /\ Has(c.trace, <<"send", "close.0">>)) =>
                       /\ c.outcome = "tmux"
                       /\ ~Spawned(c, "split")
                       /\ fileExists /\ fileText = c.existing
                /\ (Ended(c) /\ ~Has(c.trace, <<"send", "close.0">>)) =>
                       \/ Has(c.trace, <<"reg.unreuse", "ok">>)
                       \/ Has(c.trace, <<"reg.unreuse", "err">>)

\* C4 witness: a confirmed id, both send-keys issued, method tmux returned.
C4_Witness ==
    \E p \in Procs :
        /\ Validated(call[p]) /\ Ended(call[p])
        /\ Has(call[p].trace, <<"send", "close.0">>)
        /\ call[p].outcome = "tmux"
        /\ fileText = call[p].existing

\* C5 (as stated): when the reference was found stale or the reuse failed,
\* the registry has been overwritten with empty content before split-window
\* is issued, and it is empty when the new id is about to be written (it
\* never passes from the stale id to the new id directly).
C5_ClearedBeforeCreate ==
    \A p \in Procs :
        LET c == call[p]
        IN  (FoundStale(c) \/ ReuseFailed(c)) =>
                /\ Spawned(c, "split") =>
                       \/ Before(c.trace, <<"reg.clear", "ok">>, <<"split", "spawn">>)
                       \/ Before(c.trace, <<"reg.unreuse", "ok">>, <<"split", "spawn">>)
                /\ c.pc = "save" => (fileExists /\ fileText = <<>>)

\* C5 (amended): in such a dispatch a write of empty content is attempted
\* before split-window is issued and before any new id is written; unless
\* that write failed with an I/O error (which getCanvasPaneId swallows), the
\* registry is empty from then until the new id is written.
C5_ClearAttemptedBeforeCreate ==
    \A p \in Procs :
        LET c == call[p]
        IN  ((FoundStale(c) \/ ReuseFailed(c)) /\ c.pc \notin {"stale", "unreuse"}) =>
                /\ \/ Has(c.trace, <<"reg.clear", "ok">>)
                   \/ Has(c.trace, <<"reg.clear", "err">>)
                   \/ Has(c.trace, <<"reg.unreuse", "ok">>)
                   \/ Has(c.trace, <<"reg.unreuse", "err">>)
                /\ Spawned(c, "split") =>
                       \/ Before(c.trace, <<"reg.clear", "ok">>, <<"split", "spawn">>)
                       \/ Before(c.trace, <<"reg.clear", "err">>, <<"split", "spawn">>)
                       \/ Before(c.trace, <<"reg.unreuse", "ok">>, <<"split", "spawn">>)
                /\ (c.pc \in {"create", "split", "save"}
                        /\ ~Has(c.trace, <<"reg.clear", "err">>)) =>
                       (fileExists /\ fileText = <<>>)

\* C5 witness: a stale id was cleared and the new id is about to be written
\* over the empty registry.
C5_Witness ==
    \E p \in Procs :
        /\ FoundStale(call[p]) /\ Truthy(call[p].paneId)
        /\ Has(call[p].trace, <<"reg.clear", "ok">>)
        /\ call[p].pc = "save"
        /\ fileText = <<>>

\* C6 (as stated): with the Ghostty and macOS markers both present the call
\* returns method ghostty.
C6_GuiMarkersReturnGhostty ==
    \A p \in Procs :
        (GuiMarkers(call[p]) /\ Ended(call[p])) => call[p].outcome = "ghostty"

\* C6 (amended): with both markers present the call issues the automation
\* first, whatever the tmux marker, and returns method ghostty exactly when
\* the osascript process closes with exit status zero.
C6_GhosttyIffAutomationSucceeds ==
    \A p \in Procs :
        LET c == call[p]
        IN  GuiMarkers(c) =>
                /\ c.pc # "ghostty" => Spawned(c, "osascript")
                /\ Ended(c) =>
                       (c.outcome = "ghostty" <=> Has(c.trace, <<"osascript", "close.0">>))
                /\ Has(c.trace, <<"osascript", "close.0">>) => Ended(c)

\* C6 witness: both markers and the tmux marker present, method ghostty
\* returned.
C6_Witness ==
    \E p \in Procs :
        /\ GuiMarkers(call[p]) /\ call[p].env.inTmux
        /\ Ended(call[p]) /\ call[p].outcome = "ghostty"

\* C7: in an unsupported environment spawnCanvas throws its error at once:
\* no command is issued and the registry is not accessed.
C7_UnsupportedFailsAtOnce ==
    \A p \in Procs :
        LET c == call[p]
        IN  (c.pc # "idle" /\ c.env.summary = "unsupported") =>
                /\ Ended(c)
                /\ c.outcome = "thrown"
                /\ c.err = "RequiresGhosttyOrTmux"
                /\ c.trace = <<>>

\* C7 witness: a call with no marker at all has thrown.
C7_Witness ==
    \E p \in Procs :
        /\ ~call[p].env.inTmux /\ ~call[p].env.inGhostty /\ ~call[p].env.isMacOS
        /\ Ended(call[p]) /\ call[p].outcome = "thrown"

\* C8 (as stated): a registry I/O failure never surfaces: every call ends
\* with a result or with the one error of spawnCanvas, and no call is left
\* without an end.
C8_RegistryIoSwallowed ==
    \A p \in Procs :
        /\ call[p].pc # "unhandled"
        /\ (Ended(call[p]) /\ call[p].outcome = "thrown") =>
               call[p].err = "RequiresGhosttyOrTmux"

\* C9: an I/O or host-communication error inside getCanvasPaneId yields no
\* reference: nothing is thrown, no reuse is tried, and the dispatch goes on
\* to create a new pane.
C9_ValidationFailsClosed ==
    \A p \in Procs :
        LET c == call[p]
        IN  ValidationError(c) =>
                /\ ~c.hasExisting
                /\ ~SentKeys(c)
                /\ c.err # "io"
                /\ c.pc \in {"stale", "create", "split", "save", "done", "unhandled"}
                /\ c.pc \in {"done", "unhandled"} => Spawned(c, "split")

\* C9 witness: the read of the registry file failed and the call returned
\* with a new pane.
C9_Witness ==
    \E p \in Procs :
        /\ Has(call[p].trace, <<"reg.text", "err">>)
        /\ Ended(call[p]) /\ call[p].outcome = "tmux"
        /\ Spawned(call[p], "split")

\* C10: a failure at the final step (split-window, or osascript with no
\* tmux marker) makes spawnCanvas throw; a call that met a failure at a
\* step with a fallback throws only if the final step failed too (or the
\* registry write after a failed reuse threw).
C10_OnlyFinalFailuresThrow ==
    \A p \in Procs :
        LET c == call[p]
        IN  Ended(c) =>
                /\ FinalFailure(c) =>
                       (c.outcome = "thrown" /\ c.err = "RequiresGhosttyOrTmux")
                /\ (FallbackFailure(c) /\ c.outcome = "thrown") =>
                       (FinalFailure(c) \/ Has(c.trace, <<"reg.unreuse", "err">>))

\* C10 witness: the reuse failed, then split-window exited non-zero, and
\* the call threw.
C10_Witness ==
    \E p \in Procs :
        /\ Ended(call[p]) /\ call[p].outcome = "thrown"
        /\ ReuseFailed(call[p])
        /\ Has(call[p].trace, <<"split", "close.1">>)

----------------------------------------------------------------------------
\* The reads of getCanvasPaneId met no I/O failure
ReadRegistry(c) ==
    ~Has(c.trace, <<"reg.exists", "err">>) /\ ~Has(c.trace, <<"reg.text", "err">>)

\* The save of this call wrote over an id that its read of the registry had
\* not seen: the id of a pane another call created in the meantime
LostUpdate(c) ==
    /\ ReadRegistry(c)
    /\ Has(c.trace, <<"reg.save", "ok">>)
    /\ Truthy(c.over) /\ c.over # c.paneId

\* This call began to reuse a validated pane id the file no longer held
ReusedCleared(c) == Validated(c) /\ Spawned(c, "kill") /\ ~c.heldAtReuse

\* C11 (as stated, its serialized half): a call that overlapped with no
\* other never ends with a new pane tracked while the pane of an earlier
\* call, whose id it read from the registry, is live and untracked.
C11_SerializedNeverTwoPanes ==
    \A p \in Procs :
        LET c == call[p]
        IN  (~c.overlapped /\ Ended(c) /\ Truthy(c.paneId)
             /\ Has(c.trace, <<"split", "close.0">>)
             /\ Has(c.trace, <<"reg.save", "ok">>)) =>
                ~(PaneLive(c.paneId) /\ fileText # c.paneId)

\* C11 (amended): a call that read the registry and whose save overwrites
\* an id it had not read, or a call that reuses an id already cleared from
\* the registry, is a call that overlapped with another one: with calls one
\* after the other neither happens (with overlapping calls both do, see the
\* witness).
C11_RacesNeedOverlap ==
    \A p \in Procs :
        (LostUpdate(call[p]) \/ ReusedCleared(call[p])) => call[p].overlapped

\* C11 witness: q validated and began to reuse an id p had already cleared;
\* then both created a pane, and p's save, the last one, wrote over q's id:
\* the registry holds p's pane only, q's pane is live and untracked.
C11_Witness ==
    \E p, q \in Procs :
        /\ p # q
        /\ ReusedCleared(call[q]) /\ ~call[q].heldAtLookup
        /\ Has(call[q].trace, <<"reg.save", "ok">>)
        /\ LostUpdate(call[p])
        /\ call[p].over = Trim(call[q].newId)
        /\ fileText = Trim(call[p].newId)
        /\ fileText # Trim(call[q].newId)
        /\ \E n \in live : PaneStr(n) = Trim(call[q].newId)

----------------------------------------------------------------------------
\* C12 (as stated): over serialized multiplexer dispatches on a host whose
\* every command succeeds, at most one pane created by split-window is live
\* at any time.
C12_AtMostOnePaneLive == Cardinality(live) <= 1

----------------------------------------------------------------------------
\* spawnCanvas went to a host: it is about to run osascript, has entered
\* spawnTmux, or has issued a command or touched the registry
Attempted(c) ==
    c.pc \in {"ghostty", "osascript"} \/ TmuxStarted(c) \/ c.trace # <<>>

\* C13: for every combination of the three signals the summary is one of
\* three values, the first match winning: "ghostty (macOS)" exactly with the
\* Ghostty and macOS markers, "tmux" exactly when that fails and the tmux
\* marker is present, "unsupported" otherwise; and spawnCanvas goes to a
\* host exactly when the summary is not "unsupported".
C13_DetectionDrivesDispatch ==
    \A p \in Procs :
        LET c == call[p]
            gui == c.env.inGhostty /\ c.env.isMacOS
        IN  c.pc # "idle" =>
                /\ c.env.summary \in {"ghostty (macOS)", "tmux", "unsupported"}
                /\ (c.env.summary = "ghostty (macOS)") <=> gui
                /\ (c.env.summary = "tmux") <=> (~gui /\ c.env.inTmux)
                /\ (c.env.summary = "unsupported") <=> (~gui /\ ~c.env.inTmux)
                /\ Attempted(c) <=> (c.env.summary # "unsupported")
                /\ ~Attempted(c) => (c.outcome = "thrown" /\ c.err = "RequiresGhosttyOrTmux")

\* C13 witness: the Ghostty marker without macOS, and the tmux marker: the
\* first rule fails, the summary is "tmux" and the call went to tmux and to
\* no osascript.
C13_Witness ==
    \E p \in Procs :
        /\ call[p].env.inGhostty /\ ~call[p].env.isMacOS /\ call[p].env.inTmux
        /\ call[p].env.summary = "tmux"
        /\ Spawned(call[p], "split") /\ ~Spawned(call[p], "osascript")

----------------------------------------------------------------------------
\* C14 (as stated): a dispatch that finds the registry empty, the file
\* absent or its content empty, issues no display-message lookup and gets no
\* pane id from getCanvasPaneId.
C14_EmptyRegistryNoLookup ==
    \A p \in Procs :
        LET c == call[p]
        IN  (TmuxStarted(c) /\ c.pc \notin {"idle", "tmux", "text"} /\ c.paneId = <<>>) =>
                ~LookedUp(c) /\ ~Truthy(c.existing)

----------------------------------------------------------------------------
\* C15: the registry content, when not empty, is a pane id exactly as
\* saveCanvasPaneId was given it; the read of a later dispatch yields that
\* very id, and getCanvasPaneId returns it when the host confirms it.
C15_SavedIdReadBack ==
    /\ (fileExists /\ Truthy(fileText)) =>
           \E n \in Panes : n < nextPane /\ fileText = PaneStr(n)
    /\ \A p \in Procs :
           LET c == call[p]
           IN  /\ c.pc = "lookup" => c.paneId = fileText
               /\ c.pc = "reuse" =>
                      /\ PaneConfirmed(c.look, fileText)
                      /\ c.existing = fileText

\* C15 witness: a dispatch read back the id an earlier dispatch had saved,
\* the host confirmed it, and getCanvasPaneId returned it.
C15_Witness ==
    \E p \in Procs :
        /\ call[p].pc = "reuse"
        /\ fileExists /\ fileText = PaneStr(1)
        /\ call[p].existing = PaneStr(1)

----------------------------------------------------------------------------
\* The literal in which each double quote and each backslash of the command
\* is preceded by one escaping backslash, every other character unchanged
RECURSIVE Escaped(_)
Escaped(s) ==
    IF s = <<>> THEN <<>>
    ELSE (IF Head(s) \in {Quote, Backslash} THEN <<Backslash, Head(s)>> ELSE <<Head(s)>>)
         \o Escaped(Tail(s))

\* The text an AppleScript string literal with this body denotes: a backslash
\* makes the next character literal, a bare double quote ends the literal
RECURSIVE Unescaped(_)
Unescaped(s) ==
    IF s = <<>> THEN <<>>
    ELSE IF Head(s) = Quote THEN <<>>
    ELSE IF Head(s) = Backslash
         THEN (IF Len(s) = 1 THEN <<>> ELSE <<s[2]>> \o Unescaped(Tail(Tail(s))))
    ELSE <<Head(s)>> \o Unescaped(Tail(s))

\* C16 (as stated): the text put between the quotes of the keystroke
\* statement has exactly one escaping backslash before each double quote
\* and each backslash of the command, and un-escaping it gives the command.
C16_EscapedOnceRoundTrip ==
    keystroke.replaced = 2 =>
        /\ keystroke.text = Escaped(keystroke.command)
        /\ Unescaped(keystroke.text) = keystroke.command

----------------------------------------------------------------------------
\* the dispatch returned method tmux out of reuseExistingPane
DoneByReuse(c) ==
    Ended(c) /\ c.outcome = "tmux" /\ Spawned(c, "kill") /\ ~Spawned(c, "split")

\* the interrupt send-keys or the command send-keys did not exit with zero
ReuseStepFailed(c) == ReuseFailed(c) \/ Has(c.trace, <<"kill", "close.1">>)

\* C17 (as stated): a dispatch ends in Done by reuse only if the interrupt
\* send-keys and the command send-keys both exited zero; when either failed
\* the dispatch clears the registry and goes on to split-window; and the
\* command is spawned only after the interrupt process closed and the timer
\* ran.  The calls that ended on a throwing registry write belong to C8 and
\* are left out here.
C17_ReuseNeedsBothSends ==
    \A p \in Procs :
        LET c == call[p]
        IN  /\ DoneByReuse(c) =>
                   /\ Has(c.trace, <<"kill", "close.0">>)
                   /\ Has(c.trace, <<"send", "close.0">>)
            /\ (ReuseStepFailed(c) /\ Ended(c) /\ c.err # "io") =>
                   /\ ~DoneByReuse(c)
                   /\ Before(c.trace, <<"reg.unreuse", "ok">>, <<"split", "spawn">>)
            /\ Spawned(c, "send") =>
                   \E code \in {0, 1} :
                       Before(c.trace, Closed("kill", code), <<"send", "spawn">>)

----------------------------------------------------------------------------
RECURSIVE Count(_, _)
Count(tr, x) ==
    IF tr = <<>> THEN 0
    ELSE (IF Head(tr) = x THEN 1 ELSE 0) + Count(Tail(tr), x)

\* one GUI automation, one lookup, one reuse attempt and one creation at most
NoRetry(c) ==
    /\ Count(c.trace, <<"osascript", "spawn">>) <= 1
    /\ Count(c.trace, <<"display-message", "spawnSync">>) <= 1
    /\ Count(c.trace, <<"kill", "spawn">>) <= 1
    /\ Count(c.trace, <<"split", "spawn">>) <= 1

\* a result naming the method, or one thrown error, never both
OneOutcome(c) ==
    Ended(c) => /\ c.outcome \in {"ghostty", "tmux", "thrown"}
                /\ (c.outcome = "thrown") <=> (c.err # "none")

\* C18 (as stated): every spawnCanvas call, its processes closing or failing
\* in the end, terminates with a result or with one thrown error, and on
\* the way issues each kind of attempt once at most.
C18_TerminatesWithoutRetry ==
    /\ [](\A p \in Procs : NoRetry(call[p]) /\ OneOutcome(call[p]))
    /\ \A p \in Procs : (call[p].pc \notin {"idle", "done"}) ~> (call[p].pc = "done")

----------------------------------------------------------------------------
\* the call issued a tmux command or touched the registry file
TouchedTmux(c) == \E i \in DOMAIN c.trace : c.trace[i][1] # "osascript"

\* C19: a call whose osascript exited zero returns method ghostty, has
\* issued no tmux command and has not touched the registry file, the tmux
\* marker present or not; no step of a call that is on the Ghostty path
\* changes the file; and the calls that do touch the registry or tmux are in
\* tmux and, if they had the Ghostty markers, saw the automation fail first.
C19_GuiLeavesRegistryAlone ==
    [][/\ \A p \in Procs :
              LET c == call'[p]
              IN  /\ Has(c.trace, <<"osascript", "close.0">>) =>
                         /\ c.pc = "done" /\ c.outcome = "ghostty"
                         /\ ~TouchedTmux(c)
                  /\ (TouchedTmux(c) /\ c.pc # "idle") =>
                         /\ c.env.inTmux
                         /\ (c.env.inGhostty /\ c.env.isMacOS) => GuiFailed(c)
       /\ (\E p \in Procs : call[p].pc \in {"ghostty", "osascript"}
                            /\ call'[p] # call[p]) =>
              (fileExists' = fileExists /\ fileText' = fileText)
       /\ (fileExists' # fileExists \/ fileText' # fileText) =>
              \E p \in Procs : call[p].pc \in {"stale", "unreuse", "save"}
                               /\ call'[p] # call[p]
      ]_vars

\* C19 witness: the registry holds the id of a live pane, the tmux marker is
\* present, and a call returned method ghostty without touching either.
C19_Witness ==
    \E p \in Procs :
        /\ call[p].env.inTmux /\ GuiMarkers(call[p])
        /\ Ended(call[p]) /\ call[p].outcome = "ghostty"
        /\ call[p].trace = << <<"osascript", "spawn">>, <<"osascript", "close.0">> >>
        /\ fileExists /\ fileText = PaneStr(1) /\ 1 \in live

----------------------------------------------------------------------------
\* What the registry may hold when this dispatch has completed: nothing, the
\* id it reused, or the id of the pane it created and saved
LeftInRegistry(c) ==
    {<<>>}
    \cup (IF DoneByReuse(c) THEN {c.existing} ELSE {})
    \cup (IF Has(c.trace, <<"reg.save", "ok">>) THEN {Trim(c.newId)} ELSE {})

\* What C20 says of a completed dispatch
CleanRegistry(c) ==
    /\ (FoundStale(c) /\ Truthy(c.paneId)) => ~Holds(c.paneId)
    /\ ReuseFailed(c) => ~Holds(c.existing)
    /\ Content \in LeftInRegistry(c)
    /\ SplitFailed(c) => Content = <<>>

\* no read and no write of the registry file failed in this dispatch
RegistryOk(c) == \A i \in DOMAIN c.trace : c.trace[i][2] # "err"

====
